---- MODULE Spec2Model ----
(***************************************************************************)
(* wallet-core of web3-wallet-lab: the network registry, the connection    *)
(* cache, the balance reader and the transfer engine, as a state machine.  *)
(*                                                                         *)
(* JavaScript runs one synchronous segment at a time: an async function    *)
(* runs without interruption up to its next `await`, so every action below *)
(* is one such segment (a call's start, or its continuation after the      *)
(* network answered).  A call that ends leaves `calls` in the step that     *)
(* ends it and its outcome is shown in `out` until the next step, so any    *)
(* number of calls may follow one another while at most MaxCalls of them    *)
(* await the network at once.                                              *)
(*                                                                         *)
(* The network is the environment: it accepts or rejects a submission,     *)
(* answers a wait with any receipt or none, answers a balance query with   *)
(* any balance, or fails.  The progress callback is the caller's: it may   *)
(* be absent, and it may throw on any notification.                        *)
(*                                                                         *)
(* Strings are sequences of atoms.  Amounts are sequences of characters;   *)
(* addresses and keys are sequences whose atoms are a blank " ", the       *)
(* prefix "0x", or an opaque word.  bigint values are records              *)
(* [neg, mag] with mag the decimal digits without leading zeros.           *)
(* The wall-clock fields (updatedAt, confirmedAt) are not modelled.        *)
(*                                                                         *)
(* The identity operations and maskAddress are synchronous: each is one    *)
(* action whose outcome the caller holds in `wallet` (with an earlier      *)
(* outcome kept in `earlier`) or in `masked`.  The derivation of keys and  *)
(* addresses is the library's and is a table over a few key words and      *)
(* phrases; strings handed to maskAddress are sequences of characters.     *)
(***************************************************************************)
EXTENDS Integers, Sequences, FiniteSets, TLC

VARIABLES NETWORKS, PROVIDERS, clients, calls, out,
          wallet, earlier, masked, app

\* what the caller of the library holds: the outcome of its last identity
\* operation, the outcome of an earlier one it kept, its last masked string,
\* and the state of the web app's balance panel
callerVars == <<wallet, earlier, masked, app>>

vars ==
  <<NETWORKS, PROVIDERS, clients, calls, out, wallet, earlier, masked, app>>

(* ------------------------------ bounds --------------------------------- *)

\* number of invocations that may be awaiting the network at the same time
MaxCalls == 2

\* longest address body handed to maskAddress, and the largest lengths
\* passed for its prefix and its suffix
MaxAddressLength == 12
MaxPrefixLength == 3
MaxSuffixLength == 2

(* --------------------------- basic values ------------------------------ *)

Null == "null"
NoError == "none"
NoHash == "undefined"

\* decimals of the native unit used by parseEther / formatEther
EtherDecimals == 18

\* default parameters of maskAddress
DefaultPrefixLength == 6
DefaultSuffixLength == 4

Digits == {"0", "1", "2", "3", "4", "5", "6", "7", "8", "9"}

\* the catalog as written in the source
NetworkCatalog ==
  << [key |-> "sepolia", label |-> "Sepolia", chainId |-> 11155111,
      symbol |-> "ETH", rpcUrl |-> "https://ethereum-sepolia-rpc.publicnode.com",
      explorerTxBaseUrl |-> "https://sepolia.etherscan.io/tx"],
     [key |-> "mainnet", label |-> "Ethereum Mainnet", chainId |-> 1,
      symbol |-> "ETH", rpcUrl |-> "https://cloudflare-eth.com",
      explorerTxBaseUrl |-> "https://etherscan.io/tx"] >>

\* SupportedNetwork is erased at run time: any string may arrive as a network
NetworkIds == {"sepolia", "mainnet", "goerli"}

(* ----------------------------- strings --------------------------------- *)

RECURSIVE trimStart(_)
trimStart(s) == IF s # <<>> /\ Head(s) = " " THEN trimStart(Tail(s)) ELSE s

RECURSIVE trimEnd(_)
trimEnd(s) ==
  IF s # <<>> /\ s[Len(s)] = " " THEN trimEnd(SubSeq(s, 1, Len(s) - 1)) ELSE s

trim(s) == trimEnd(trimStart(s))

\* replace(/\s+/g, " "): every run of blanks becomes one blank
RECURSIVE collapseWhitespace(_)
collapseWhitespace(s) ==
  IF Len(s) <= 1 THEN s
  ELSE IF s[1] = " " /\ s[2] = " " THEN collapseWhitespace(Tail(s))
  ELSE <<s[1]>> \o collapseWhitespace(Tail(s))

Min(a, b) == IF a <= b THEN a ELSE b

Max(a, b) == IF a >= b THEN a ELSE b

\* String.prototype.slice(start, end): a negative index counts from the end,
\* indices are clamped to the string, an empty range gives ""
slice(s, start, end) ==
  LET from == IF start < 0 THEN Max(Len(s) + start, 0) ELSE Min(start, Len(s))
      to   == IF end < 0 THEN Max(Len(s) + end, 0) ELSE Min(end, Len(s))
  IN  IF to <= from THEN <<>> ELSE SubSeq(s, from + 1, to)

\* String.prototype.slice(start): up to the end of the string
sliceFrom(s, start) == slice(s, start, Len(s))

RECURSIVE stripLeadingZeros(_)
stripLeadingZeros(s) ==
  IF s # <<>> /\ Head(s) = "0" THEN stripLeadingZeros(Tail(s)) ELSE s

RECURSIVE stripTrailingZeros(_)
stripTrailingZeros(s) ==
  IF s # <<>> /\ s[Len(s)] = "0"
  THEN stripTrailingZeros(SubSeq(s, 1, Len(s) - 1)) ELSE s

Zeros(n) == [i \in 1..n |-> "0"]

(* ----------------------------- bigint ---------------------------------- *)

BigInt(neg, digits) ==
  LET mag == stripLeadingZeros(digits)
  IN  [neg |-> neg /\ mag # <<>>, mag |-> mag]

BigZero == [neg |-> FALSE, mag |-> <<>>]

\* value <= 0n
IsNonPositive(v) == v.neg \/ v.mag = <<>>

toString_BareMagnitude(v) == v.mag

\* bigint.toString()
toString(v) ==
  IF v.mag = <<>> THEN <<"0">>
  ELSE (IF v.neg THEN <<"-">> ELSE <<>>) \o v.mag

\* ethers parseEther: ^(-?)([0-9]*)\.?([0-9]*)$ with at least one digit and
\* at most EtherDecimals significant decimals; throws otherwise
parseEther(raw) ==
  LET neg   == raw # <<>> /\ Head(raw) = "-"
      body  == IF neg THEN Tail(raw) ELSE raw
      dots  == {i \in 1..Len(body) : body[i] = "."}
      d     == IF dots = {} THEN Len(body) + 1 ELSE CHOOSE i \in dots : TRUE
      whole == SubSeq(body, 1, d - 1)
      frac  == SubSeq(body, d + 1, Len(body))
      fracS == stripTrailingZeros(frac)
      ok    == /\ Cardinality(dots) <= 1
               /\ \A i \in 1..Len(whole) : whole[i] \in Digits
               /\ \A i \in 1..Len(frac) : frac[i] \in Digits
               /\ Len(whole) + Len(frac) > 0
               /\ Len(fracS) <= EtherDecimals
  IN  IF ok
      THEN [ok |-> TRUE,
            value |-> BigInt(neg, whole \o fracS \o Zeros(EtherDecimals - Len(fracS)))]
      ELSE [ok |-> FALSE, value |-> BigZero]

\* ethers formatEther: whole part, ".", decimals without trailing zeros
formatEther(v) ==
  LET padded == Zeros(EtherDecimals + 1 - Len(v.mag)) \o v.mag
      cut    == Len(padded) - EtherDecimals
      whole  == stripLeadingZeros(SubSeq(padded, 1, cut))
      frac   == stripTrailingZeros(SubSeq(padded, cut + 1, Len(padded)))
  IN  (IF v.neg THEN <<"-">> ELSE <<>>)
        \o (IF whole = <<>> THEN <<"0">> ELSE whole)
        \o <<".">>
        \o (IF frac = <<>> THEN <<"0">> ELSE frac)

(* ------------------------ addresses and keys --------------------------- *)

\* account addresses known to the model, by their spelling
LowerAddress == "0xab12"
ChecksumAddress == "0xAb12"
BadChecksumAddress == "0xaB12"

OtherLowerAddress == "0xcd34"
OtherChecksumAddress == "0xCd34"

\* the checksummed spelling of every well-formed spelling
Checksummed ==
  [a \in {LowerAddress, ChecksumAddress, OtherLowerAddress,
          OtherChecksumAddress} |->
     IF a \in {LowerAddress, ChecksumAddress}
     THEN ChecksumAddress ELSE OtherChecksumAddress]

\* ethers isAddress: a well-formed address, all lower case or correctly
\* checksummed; nothing else (blanks, other words) is an address
isAddress(s) == Len(s) = 1 /\ s[1] \in DOMAIN Checksummed

\* ethers getAddress: the checksummed spelling
getAddress(s) == <<Checksummed[s[1]]>>

ValidKeyWord == "k1"

\* the 32-byte hex words: "K1" is "k1" written with upper-case hex digits
KeyWords == {ValidKeyWord, "K1", "k2"}

\* ethers hexlify: the lower-case spelling of a hex word
hexlify(word) == IF word = "K1" THEN ValidKeyWord ELSE word

\* new Wallet(key): the key must be "0x" followed by a valid 32-byte hex word
isPrivateKey(key) == Len(key) = 2 /\ key[1] = "0x" /\ key[2] \in KeyWords

\* the address a signing key controls (Wallet.address, response.from)
addressOfKey(key) ==
  << IF hexlify(key[2]) = ValidKeyWord
     THEN ChecksumAddress ELSE OtherChecksumAddress >>

\* new Wallet(key) for a valid key: a signer without recovery phrase
\* (an absent phrase is <<>>, a present one is <<phrase>>)
Wallet(key) ==
  [address |-> addressOfKey(key),
   privateKey |-> <<"0x", hexlify(key[2])>>,
   mnemonic |-> <<>>]

\* the entropy values Wallet.createRandom may draw
Entropies == {"e1", "e2"}

\* the phrase that encodes an entropy value (words separated by one blank)
entropyToPhrase(entropy) ==
  IF entropy = "e1" THEN <<"w1", " ", "w2">> ELSE <<"w2", " ", "w1">>

\* the phrases whose words and checksum are valid
ValidPhrases == { entropyToPhrase(e) : e \in Entropies }

\* the key word derived from a valid phrase on the default path
keyOfPhrase(phrase) ==
  IF phrase = entropyToPhrase("e1") THEN ValidKeyWord ELSE "k2"

fromPhrase_MismatchedAddress(phrase) ==
  [address |-> addressOfKey(<<"0x", keyOfPhrase(phrase)>>),
   privateKey |-> <<"0x", IF keyOfPhrase(phrase) = ValidKeyWord
                          THEN "k2" ELSE ValidKeyWord>>,
   mnemonic |-> << [phrase |-> phrase] >>]

\* Wallet.fromPhrase(phrase) for a valid phrase: a signer that carries it
fromPhrase(phrase) ==
  [address |-> addressOfKey(<<"0x", keyOfPhrase(phrase)>>),
   privateKey |-> <<"0x", keyOfPhrase(phrase)>>,
   mnemonic |-> << [phrase |-> phrase] >>]

\* Wallet.createRandom(): a signer from fresh entropy, with its phrase
createRandom(entropy) == fromPhrase(entropyToPhrase(entropy))

(* ---------------------------- validation ------------------------------- *)

normalizePrivateKey_NoTrim(input) ==
  IF input = <<>>
  THEN [error |-> "Private key is required.", value |-> <<>>]
  ELSE [error |-> NoError,
        value |-> IF Head(input) = "0x" THEN input ELSE <<"0x">> \o input]

normalizePrivateKey(input) ==
  LET raw == trim(input)
  IN  IF raw = <<>>
      THEN [error |-> "Private key is required.", value |-> <<>>]
      ELSE [error |-> NoError,
            value |-> IF Head(raw) = "0x" THEN raw ELSE <<"0x">> \o raw]

normalizeRecipientAddress_NoFormatCheck(input) ==
  LET raw == trim(input)
  IN  IF raw = <<>>
      THEN [error |-> "Recipient address is required.", value |-> <<>>]
      ELSE [error |-> NoError, value |-> raw]

normalizeRecipientAddress(input) ==
  LET raw == trim(input)
  IN  IF raw = <<>>
      THEN [error |-> "Recipient address is required.", value |-> <<>>]
      ELSE IF ~isAddress(raw)
      THEN [error |-> "Invalid recipient address.", value |-> <<>>]
      ELSE [error |-> NoError, value |-> getAddress(raw)]

normalizeTransferAmount_StrictlyNegative(amountEth) ==
  LET raw == trim(amountEth)
      p   == parseEther(raw)
  IN  IF raw = <<>>
      THEN [error |-> "Amount is required.", value |-> BigZero]
      ELSE IF ~p.ok
      THEN [error |-> "Invalid amount format.", value |-> BigZero]
      ELSE IF p.value.neg
      THEN [error |-> "Amount must be greater than zero.", value |-> BigZero]
      ELSE [error |-> NoError, value |-> p.value]

normalizeTransferAmount(amountEth) ==
  LET raw == trim(amountEth)
      p   == parseEther(raw)
  IN  IF raw = <<>>
      THEN [error |-> "Amount is required.", value |-> BigZero]
      ELSE IF ~p.ok
      THEN [error |-> "Invalid amount format.", value |-> BigZero]
      ELSE IF IsNonPositive(p.value)
      THEN [error |-> "Amount must be greater than zero.", value |-> BigZero]
      ELSE [error |-> NoError, value |-> p.value]

(* ---------------------------- key material ----------------------------- *)

toSnapshot_DropsMnemonic(w) ==
  [address |-> w.address, privateKey |-> w.privateKey, mnemonic |-> <<>>]

\* lines 194-201: the plain record of a signer; mnemonic is null (<<>>)
\* when the signer carries no phrase
toSnapshot(w) ==
  [address |-> w.address,
   privateKey |-> w.privateKey,
   mnemonic |-> IF w.mnemonic = <<>> THEN <<>>
                ELSE <<w.mnemonic[1].phrase>>]

\* lines 222-224
createWallet(entropy) ==
  [error |-> NoError, value |-> <<toSnapshot(createRandom(entropy))>>]

\* lines 226-228
recoverWalletFromPrivateKey(privateKey) ==
  LET key == normalizePrivateKey(privateKey)
  IN  IF key.error # NoError THEN [error |-> key.error, value |-> <<>>]
      ELSE IF ~isPrivateKey(key.value)
      THEN [error |-> "invalid private key", value |-> <<>>]
      ELSE [error |-> NoError, value |-> <<toSnapshot(Wallet(key.value))>>]

recoverWalletFromMnemonic_Sticky(mnemonic) ==
  LET phrase == collapseWhitespace(trim(mnemonic))
  IN  IF phrase = <<>>
      THEN [error |-> "Mnemonic phrase is required.", value |-> <<>>]
      ELSE IF phrase \notin ValidPhrases
      THEN [error |-> "invalid mnemonic", value |-> <<>>]
      ELSE IF wallet # <<>> /\ wallet[1].value # <<>>
      THEN [error |-> NoError, value |-> wallet[1].value]
      ELSE [error |-> NoError, value |-> <<toSnapshot(fromPhrase(phrase))>>]

\* lines 230-236
recoverWalletFromMnemonic(mnemonic) ==
  LET phrase == collapseWhitespace(trim(mnemonic))
  IN  IF phrase = <<>>
      THEN [error |-> "Mnemonic phrase is required.", value |-> <<>>]
      ELSE IF phrase \notin ValidPhrases
      THEN [error |-> "invalid mnemonic", value |-> <<>>]
      ELSE [error |-> NoError, value |-> <<toSnapshot(fromPhrase(phrase))>>]

\* lines 238-245: recovery in a try/catch; the probe itself never throws
isValidPrivateKey(privateKey) ==
  [error |-> NoError,
   value |-> <<recoverWalletFromPrivateKey(privateKey).error = NoError>>]

isValidMnemonic_NoCollapse(mnemonic) ==
  [error |-> NoError, value |-> <<trim(mnemonic) \in ValidPhrases>>]

\* lines 247-249: Mnemonic.isValidMnemonic answers whether the phrase passes
\* the word-list and checksum validation, and throws for no string
isValidMnemonic(mnemonic) ==
  [error |-> NoError,
   value |-> <<collapseWhitespace(trim(mnemonic)) \in ValidPhrases>>]

(* ------------------------- address presentation ------------------------ *)

maskAddress_StrictlyShorter(address, prefixLength, suffixLength) ==
  LET normalized == trim(address)
  IN  IF Len(normalized) < prefixLength + suffixLength THEN normalized
      ELSE slice(normalized, 0, prefixLength) \o <<".", ".", ".">>
             \o sliceFrom(normalized, -suffixLength)

\* lines 316-322
maskAddress(address, prefixLength, suffixLength) ==
  LET normalized == trim(address)
  IN  IF Len(normalized) <= prefixLength + suffixLength THEN normalized
      ELSE slice(normalized, 0, prefixLength) \o <<".", ".", ".">>
             \o sliceFrom(normalized, -suffixLength)

(* ------------------- network registry, connection cache ---------------- *)

NoNetwork ==
  [key |-> Null, label |-> Null, chainId |-> 0, symbol |-> Null,
   rpcUrl |-> Null, explorerTxBaseUrl |-> Null]

\* NETWORKS.find((item) => item.key === network): the first match, if any
find(catalog, network) ==
  LET hits == {i \in 1..Len(catalog) : catalog[i].key = network}
  IN  IF hits = {} THEN <<>>
      ELSE <<catalog[CHOOSE i \in hits : \A j \in hits : i <= j]>>

getNetwork_FallbackToFirst(catalog, network) ==
  LET target == find(catalog, network)
  IN  IF target = <<>>
      THEN [error |-> NoError, value |-> catalog[1]]
      ELSE [error |-> NoError, value |-> target[1]]

getNetwork(catalog, network) ==
  LET target == find(catalog, network)
  IN  IF target = <<>>
      THEN [error |-> "Unsupported network", value |-> NoNetwork]
      ELSE [error |-> NoError, value |-> target[1]]

\* a client handle is its index in `clients`; 0 is the absent entry
getProvider_AlwaysConstruct(catalog, providers, made, network) ==
  LET target == getNetwork(catalog, network)
  IN  IF target.error # NoError
      THEN [error |-> target.error, value |-> 0,
            providers |-> providers, clients |-> made]
      ELSE [error |-> NoError, value |-> Len(made) + 1,
            providers |-> [providers EXCEPT ![network] = Len(made) + 1],
            clients |-> Append(made, [key |-> network,
                                      rpcUrl |-> target.value.rpcUrl,
                                      chainId |-> target.value.chainId])]

getProvider_NoPublish(catalog, providers, made, network) ==
  LET found == providers[network]
      target == getNetwork(catalog, network)
  IN  IF found # 0
      THEN [error |-> NoError, value |-> found,
            providers |-> providers, clients |-> made]
      ELSE IF target.error # NoError
      THEN [error |-> target.error, value |-> 0,
            providers |-> providers, clients |-> made]
      ELSE [error |-> NoError, value |-> Len(made) + 1,
            providers |-> providers,
            clients |-> Append(made, [key |-> network,
                                      rpcUrl |-> target.value.rpcUrl,
                                      chainId |-> target.value.chainId])]

getProvider(catalog, providers, made, network) ==
  LET found == providers[network]
      target == getNetwork(catalog, network)
  IN  IF found # 0
      THEN [error |-> NoError, value |-> found,
            providers |-> providers, clients |-> made]
      ELSE IF target.error # NoError
      THEN [error |-> target.error, value |-> 0,
            providers |-> providers, clients |-> made]
      ELSE [error |-> NoError, value |-> Len(made) + 1,
            providers |-> [providers EXCEPT ![network] = Len(made) + 1],
            clients |-> Append(made, [key |-> network,
                                      rpcUrl |-> target.value.rpcUrl,
                                      chainId |-> target.value.chainId])]

getSupportedNetworks_Reversed(catalog) ==
  [i \in 1..Len(catalog) |-> catalog[Len(catalog) + 1 - i]]

getSupportedNetworks(catalog) == catalog

(* ------------------------------ inputs --------------------------------- *)

Recipients == { <<" ">>, <<"not-an-address">>, <<" ", LowerAddress, " ">> }

Amounts == { <<" ">>, <<"x">>, <<"0">>, <<"-", "1">>, <<"1", ".", "5">> }

PrivateKeys == { <<" ">>, <<"0x", "zz">>, <<ValidKeyWord>> }

Addresses == { <<"not-an-address">>, <<BadChecksumAddress>>, <<LowerAddress, " ">> }

TxHashes == {"0xh1", "0xh2"}

\* balances the network may report: 0 and 1.5 ether, in wei
Balances == { BigZero, BigInt(FALSE, <<"1", "5">> \o Zeros(EtherDecimals - 1)) }

BlockNumbers == {7}

\* what response.wait() may resolve to: null, or a receipt
Receipts ==
  {<<>>} \cup { <<[status |-> st, blockNumber |-> b]>> : st \in {0, 1}, b \in BlockNumbers }

NoRequest ==
  [privateKey |-> <<>>, to |-> <<>>, amountEth |-> <<>>, network |-> Null,
   onProgress |-> FALSE, address |-> <<>>]

TransferRequests ==
  { [privateKey |-> k, to |-> t, amountEth |-> a, network |-> n,
     onProgress |-> cb, address |-> <<>>] :
      k \in PrivateKeys, t \in Recipients, a \in Amounts, n \in NetworkIds,
      cb \in BOOLEAN }

BalanceRequests ==
  { [privateKey |-> <<>>, to |-> <<>>, amountEth |-> <<>>, network |-> n,
     onProgress |-> FALSE, address |-> a] : a \in Addresses, n \in NetworkIds }

\* the requests of the transfer-flow specification: a well-formed recipient
\* and amount, any network, a valid or a malformed key; the callback is left
\* out only with the valid key on sepolia
FlowTransferRequests ==
  { r \in TransferRequests :
      /\ r.to = <<" ", LowerAddress, " ">>
      /\ r.amountEth = <<"1", ".", "5">>
      /\ r.privateKey \in { <<"0x", "zz">>, <<ValidKeyWord>> }
      /\ r.onProgress \/ (r.privateKey = <<ValidKeyWord>> /\ r.network = "sepolia") }

FlowBalanceRequests ==
  { r \in BalanceRequests : r.address = <<LowerAddress, " ">> }

\* private keys handed to recovery: none, blank, prefix only, not hex,
\* and each key word bare, prefixed, padded, in upper case, doubly prefixed
RecoveryKeys ==
  { <<>>, <<" ">>, <<"0x">>, <<"zz">>, <<"0x", "zz">>, <<"0x", "0x", "k1">>,
    <<"0x", " ", "k1">> }
  \cup { pad[1] \o key \o pad[2] :
           key \in { <<"k1">>, <<"0x", "k1">>, <<"K1">>, <<"0x", "K1">>,
                     <<"k2">>, <<"0x", "k2">> },
           pad \in { <<<<>>, <<>>>>, <<<<" ">>, <<" ">>>>,
                     <<<<" ">>, <<>>>> } }

\* phrases handed to recovery: none, blank, too short, wrong checksum, and
\* each valid phrase with single blanks and with runs of blanks around words
RecoveryPhrases ==
  { <<>>, <<" ">>, <<"w1">>, <<"w1", " ", "w1">>,
    <<"w1", " ", "w2">>, <<" ", "w1", " ", " ", "w2", " ">>,
    <<"w2", " ", "w1">>, <<"w2", " ", " ", "w1">> }

\* the characters of an address body, all different
AddressChars ==
  <<"0", "x", "1", "2", "3", "4", "5", "6", "7", "8", "9", "a", "b", "c",
    "d", "e", "f">>

\* strings handed to maskAddress: the first n characters of the body, bare
\* or with a blank before, after, or on both sides
MaskInputs ==
  { pad[1] \o SubSeq(AddressChars, 1, n) \o pad[2] :
      n \in 0..MaxAddressLength,
      pad \in { <<<<>>, <<>>>>, <<<<" ">>, <<>>>>, <<<<>>, <<" ">>>>,
                <<<<" ">>, <<" ">>>> } }

\* the lengths the caller passes: none, the prefix only, or both
MaskArgs ==
  { <<>> } \cup { <<p>> : p \in 0..MaxPrefixLength }
          \cup { <<p, q>> : p \in 0..MaxPrefixLength, q \in 0..MaxSuffixLength }

(* ------------------------------ calls ---------------------------------- *)

NoCall ==
  [kind |-> "none", pc |-> "idle", request |-> NoRequest, to |-> <<>>,
   value |-> BigZero, networkInfo |-> NoNetwork, provider |-> 0,
   from |-> <<>>, events |-> <<>>, hash |-> NoHash, rpc |-> 0,
   submitted |-> <<>>, receipt |-> <<>>, wei |-> <<>>, result |-> <<>>,
   error |-> NoError]

\* onProgress?.(progress): delivered only when a callback was passed
emit(request, events, progress) ==
  IF request.onProgress THEN events \o progress ELSE events

signingProgress == << [stage |-> "signing", hash |-> NoHash] >>

broadcastProgress_ConfirmingFirst(hash) ==
  << [stage |-> "confirming", hash |-> hash],
     [stage |-> "broadcasted", hash |-> hash] >>

broadcastProgress_ConfirmingWithoutHash(hash) ==
  << [stage |-> "broadcasted", hash |-> hash],
     [stage |-> "confirming", hash |-> NoHash] >>

broadcastProgress_SigningAgain(hash) ==
  << [stage |-> "signing", hash |-> NoHash],
     [stage |-> "broadcasted", hash |-> hash],
     [stage |-> "confirming", hash |-> hash] >>

\* the two notifications that follow the accepted submission
broadcastProgress(hash) ==
  << [stage |-> "broadcasted", hash |-> hash],
     [stage |-> "confirming", hash |-> hash] >>

receiptFailed_NullOnly(receipt) == receipt = <<>>

\* !receipt || receipt.status !== 1
receiptFailed(receipt) == receipt = <<>> \/ receipt[1].status # 1

explorerUrl_FirstNetwork(networkInfo, hash) ==
  <<NetworkCatalog[1].explorerTxBaseUrl, "/", hash>>

\* networkInfo.explorerTxBaseUrl ? `${base}/${hash}` : null  (null is <<>>)
explorerUrl(networkInfo, hash) ==
  IF networkInfo.explorerTxBaseUrl # Null /\ networkInfo.explorerTxBaseUrl # ""
  THEN <<networkInfo.explorerTxBaseUrl, "/", hash>>
  ELSE <<>>

\* the synchronous part of sendNativeTransaction up to the first notification:
\* each step runs only if the ones before it did not throw
sendPrepare_KeyBeforeNetwork(catalog, providers, made, request) ==
  LET to      == normalizeRecipientAddress(request.to)
      value   == normalizeTransferAmount(request.amountEth)
      info    == getNetwork(catalog, request.network)
      prov    == getProvider(catalog, providers, made, request.network)
      key     == normalizePrivateKey(request.privateKey)
      failed(e, ps, cs) ==
        [error |-> e, to |-> <<>>, value |-> BigZero, networkInfo |-> NoNetwork,
         provider |-> 0, from |-> <<>>, providers |-> ps, clients |-> cs]
  IN  IF to.error # NoError THEN failed(to.error, providers, made)
      ELSE IF value.error # NoError THEN failed(value.error, providers, made)
      ELSE IF key.error # NoError THEN failed(key.error, providers, made)
      ELSE IF ~isPrivateKey(key.value)
      THEN failed("invalid private key", providers, made)
      ELSE IF info.error # NoError THEN failed(info.error, providers, made)
      ELSE IF prov.error # NoError THEN failed(prov.error, providers, made)
      ELSE [error |-> NoError, to |-> to.value, value |-> value.value,
            networkInfo |-> info.value, provider |-> prov.value,
            from |-> addressOfKey(key.value),
            providers |-> prov.providers, clients |-> prov.clients]

sendPrepare(catalog, providers, made, request) ==
  LET to      == normalizeRecipientAddress(request.to)
      value   == normalizeTransferAmount(request.amountEth)
      info    == getNetwork(catalog, request.network)
      prov    == getProvider(catalog, providers, made, request.network)
      key     == normalizePrivateKey(request.privateKey)
      failed(e, ps, cs) ==
        [error |-> e, to |-> <<>>, value |-> BigZero, networkInfo |-> NoNetwork,
         provider |-> 0, from |-> <<>>, providers |-> ps, clients |-> cs]
  IN  IF to.error # NoError THEN failed(to.error, providers, made)
      ELSE IF value.error # NoError THEN failed(value.error, providers, made)
      ELSE IF info.error # NoError THEN failed(info.error, providers, made)
      ELSE IF prov.error # NoError THEN failed(prov.error, providers, made)
      ELSE IF key.error # NoError
      THEN failed(key.error, prov.providers, prov.clients)
      ELSE IF ~isPrivateKey(key.value)
      THEN failed("invalid private key", prov.providers, prov.clients)
      ELSE [error |-> NoError, to |-> to.value, value |-> value.value,
            networkInfo |-> info.value, provider |-> prov.value,
            from |-> addressOfKey(key.value),
            providers |-> prov.providers, clients |-> prov.clients]

\* the synchronous part of fetchNativeBalance up to provider.getBalance
balancePrepare_NetworkFirst(catalog, providers, made, request) ==
  LET normalizedAddress == trim(request.address)
      target == getNetwork(catalog, request.network)
      prov   == getProvider(catalog, providers, made, request.network)
      failed(e) ==
        [error |-> e, address |-> <<>>, networkInfo |-> NoNetwork,
         provider |-> 0, providers |-> prov.providers, clients |-> prov.clients]
  IN  IF target.error # NoError THEN failed(target.error)
      ELSE IF ~isAddress(normalizedAddress)
      THEN failed("Invalid wallet address.")
      ELSE [error |-> NoError, address |-> normalizedAddress,
            networkInfo |-> target.value, provider |-> prov.value,
            providers |-> prov.providers, clients |-> prov.clients]

balancePrepare(catalog, providers, made, request) ==
  LET normalizedAddress == trim(request.address)
      target == getNetwork(catalog, request.network)
      prov   == getProvider(catalog, providers, made, request.network)
      failed(e) ==
        [error |-> e, address |-> <<>>, networkInfo |-> NoNetwork,
         provider |-> 0, providers |-> providers, clients |-> made]
  IN  IF ~isAddress(normalizedAddress) THEN failed("Invalid wallet address.")
      ELSE IF target.error # NoError THEN failed(target.error)
      ELSE IF prov.error # NoError THEN failed(prov.error)
      ELSE [error |-> NoError, address |-> normalizedAddress,
            networkInfo |-> target.value, provider |-> prov.value,
            providers |-> prov.providers, clients |-> prov.clients]

\* the web app after mounting: no wallet, the first network selected, no
\* balance, not loading, no error (absent values are <<>>).  `pending` lists
\* the outstanding balance calls in the order they were issued and `older`
\* holds those issued before the request whose balance is displayed
NoApp ==
  [wallet |-> <<>>, network |-> "sepolia", balance |-> <<>>,
   isBalanceLoading |-> FALSE, balanceError |-> <<>>,
   pending |-> <<>>, older |-> {}]

\* the addresses of the wallets the user may load
AppAddresses == {ChecksumAddress, OtherChecksumAddress}

\* the networks the selector offers: those getSupportedNetworks lists
CatalogIds == { NetworkCatalog[i].key : i \in DOMAIN NetworkCatalog }

(* ------------------------------ state ---------------------------------- *)
(* NETWORKS   the catalog                                                  *)
(* PROVIDERS  the connection cache: network id -> client handle (0: none)  *)
(* clients    every client constructed so far; a handle is an index here   *)
(* calls      the invocations awaiting the network                         *)
(* out        the outcome of the invocation that ended in the last step,   *)
(*            with the cache as it was before that step                    *)

Calls == 1..MaxCalls

Outcome(call, catalog) ==
  << [call |-> call, listed |-> catalog,
      providersBefore |-> PROVIDERS, clientsBefore |-> clients] >>

\* a promise rejected with `error`
Rejected(call, error) ==
  Outcome([call EXCEPT !.pc = "done", !.error = error], <<>>)

\* a promise fulfilled with `result`
Fulfilled(call, result) ==
  Outcome([call EXCEPT !.pc = "done", !.result = <<result>>], <<>>)

FreeCalls == {c \in Calls : calls[c].kind = "none"}

NextCall == CHOOSE c \in FreeCalls : \A d \in FreeCalls : c <= d

Init ==
  /\ NETWORKS = NetworkCatalog
  /\ PROVIDERS = [n \in NetworkIds |-> 0]
  /\ clients = <<>>
  /\ calls = [c \in Calls |-> NoCall]
  /\ out = <<>>
  /\ wallet = <<>>
  /\ earlier = <<>>
  /\ masked = <<>>
  /\ app = NoApp

(* ------------------------ sendNativeTransaction ------------------------ *)

\* lines 283-290: validation, connection, signer, `signing`, sendTransaction
SendNativeTransaction(request, callbackThrows) ==
  /\ callbackThrows => request.onProgress
  /\ \E p \in {sendPrepare(NETWORKS, PROVIDERS, clients, request)} :
      LET started ==
            [NoCall EXCEPT !.kind = "send", !.request = request, !.to = p.to,
                           !.value = p.value, !.networkInfo = p.networkInfo,
                           !.provider = p.provider, !.from = p.from]
          signing ==
            [started EXCEPT !.events = emit(request, <<>>, signingProgress)]
      IN
      /\ PROVIDERS' = p.providers
      /\ clients' = p.clients
      /\ UNCHANGED <<NETWORKS, callerVars>>
      /\ IF p.error # NoError
         THEN /\ ~callbackThrows
              /\ out' = Rejected(started, p.error)
              /\ UNCHANGED calls
         ELSE IF callbackThrows
         THEN /\ out' = Rejected(signing, "callback error")
              /\ UNCHANGED calls
         ELSE /\ FreeCalls # {}
              /\ calls' = [calls EXCEPT ![NextCall] =
                   [signing EXCEPT !.pc = "sendTransaction", !.rpc = 1]]
              /\ out' = <<>>

SendTransactionResolves_ReturnsEarly(c, hash, throwsAt) ==
  LET call == calls[c]
      progress == broadcastProgress(hash)
      delivered == IF throwsAt = 0 THEN progress ELSE SubSeq(progress, 1, throwsAt)
      resumed == [call EXCEPT !.hash = hash,
                              !.submitted = Append(call.submitted, hash),
                              !.events = emit(call.request, call.events, delivered)]
  IN  /\ call.pc = "sendTransaction"
      /\ throwsAt # 0 => call.request.onProgress
      /\ throwsAt <= Len(progress)
      /\ calls' = [calls EXCEPT ![c] = NoCall]
      /\ out' = IF throwsAt # 0 THEN Rejected(resumed, "callback error")
                ELSE Fulfilled(resumed, [network |-> call.request.network,
                                         hash |-> hash])
      /\ UNCHANGED <<NETWORKS, PROVIDERS, clients, callerVars>>

\* lines 290-294: the network accepted the transaction under `hash`;
\* `broadcasted`, `confirming`, then response.wait().  throwsAt > 0: the
\* callback throws on that notification
SendTransactionResolves(c, hash, throwsAt) ==
  LET call == calls[c]
      progress == broadcastProgress(hash)
      delivered == IF throwsAt = 0 THEN progress ELSE SubSeq(progress, 1, throwsAt)
      resumed == [call EXCEPT !.hash = hash,
                              !.submitted = Append(call.submitted, hash),
                              !.events = emit(call.request, call.events, delivered)]
  IN  /\ call.pc = "sendTransaction"
      /\ throwsAt # 0 => call.request.onProgress
      /\ throwsAt <= Len(progress)
      /\ IF throwsAt # 0
         THEN /\ calls' = [calls EXCEPT ![c] = NoCall]
              /\ out' = Rejected(resumed, "callback error")
         ELSE /\ calls' = [calls EXCEPT ![c] =
                   [resumed EXCEPT !.pc = "wait", !.rpc = call.rpc + 1]]
              /\ out' = <<>>
      /\ UNCHANGED <<NETWORKS, PROVIDERS, clients, callerVars>>

SendTransactionRejects_Retry(c) ==
  /\ calls[c].pc = "sendTransaction"
  /\ calls' = [calls EXCEPT ![c].rpc = calls[c].rpc + 1]
  /\ out' = <<>>
  /\ UNCHANGED <<NETWORKS, PROVIDERS, clients, callerVars>>

\* line 290: the submission was rejected or the transport failed
SendTransactionRejects(c) ==
  /\ calls[c].pc = "sendTransaction"
  /\ calls' = [calls EXCEPT ![c] = NoCall]
  /\ out' = Rejected(calls[c], "transport error")
  /\ UNCHANGED <<NETWORKS, PROVIDERS, clients, callerVars>>

\* lines 294-313: the wait resolved with `receipt`
WaitResolves(c, receipt) ==
  LET call == [calls[c] EXCEPT !.receipt = <<receipt>>]
  IN  /\ call.pc = "wait"
      /\ calls' = [calls EXCEPT ![c] = NoCall]
      /\ out' =
           IF receiptFailed(receipt)
           THEN Rejected(call, "Transaction failed on-chain.")
           ELSE Fulfilled(call,
                   [network |-> call.request.network,
                    chainId |-> clients[call.provider].chainId,
                    hash |-> call.hash,
                    from |-> getAddress(call.from),
                    to |-> call.to,
                    amountEth |-> formatEther(call.value),
                    valueWei |-> toString(call.value),
                    blockNumber |-> receipt[1].blockNumber,
                    explorerUrl |-> explorerUrl(call.networkInfo, call.hash)])
      /\ UNCHANGED <<NETWORKS, PROVIDERS, clients, callerVars>>

\* line 294: the wait failed in the transport
WaitRejects(c) ==
  /\ calls[c].pc = "wait"
  /\ calls' = [calls EXCEPT ![c] = NoCall]
  /\ out' = Rejected(calls[c], "transport error")
  /\ UNCHANGED <<NETWORKS, PROVIDERS, clients, callerVars>>

(* -------------------------- fetchNativeBalance ------------------------- *)

\* lines 259-266: validation, connection, getBalance
FetchNativeBalance(request) ==
  \E p \in {balancePrepare(NETWORKS, PROVIDERS, clients, request)} :
      LET started ==
            [NoCall EXCEPT !.kind = "balance", !.request = request,
                           !.to = p.address, !.networkInfo = p.networkInfo,
                           !.provider = p.provider]
      IN
      /\ PROVIDERS' = p.providers
      /\ clients' = p.clients
      /\ UNCHANGED <<NETWORKS, callerVars>>
      /\ IF p.error # NoError
         THEN /\ out' = Rejected(started, p.error)
              /\ UNCHANGED calls
         ELSE /\ FreeCalls # {}
              /\ calls' = [calls EXCEPT ![NextCall] =
                   [started EXCEPT !.pc = "getBalance", !.rpc = 1]]
              /\ out' = <<>>

GetBalanceResolves_Cached(c, wei) ==
  LET call == [calls[c] EXCEPT !.wei = <<wei>>]
      kept == { o \in {out[i].call : i \in DOMAIN out} :
                               /\ o.kind = "balance" /\ o.result # <<>>
                               /\ o.request = call.request }
      fresh == [network |-> call.request.network,
                address |-> call.to,
                wei |-> toString(wei),
                formatted |-> formatEther(wei),
                symbol |-> call.networkInfo.symbol]
  IN  /\ call.pc = "getBalance"
      /\ calls' = [calls EXCEPT ![c] = NoCall]
      /\ out' = Fulfilled(call, IF kept = {} THEN fresh
                                ELSE (CHOOSE o \in kept : TRUE).result[1])
      /\ UNCHANGED <<NETWORKS, PROVIDERS, clients, callerVars>>

\* lines 266-276: the network answered the balance query with `wei`
GetBalanceResolves(c, wei) ==
  LET call == [calls[c] EXCEPT !.wei = <<wei>>]
  IN  /\ call.pc = "getBalance"
      /\ calls' = [calls EXCEPT ![c] = NoCall]
      /\ out' = Fulfilled(call,
                   [network |-> call.request.network,
                    address |-> call.to,
                    wei |-> toString(wei),
                    formatted |-> formatEther(wei),
                    symbol |-> call.networkInfo.symbol])
      /\ UNCHANGED <<NETWORKS, PROVIDERS, clients, callerVars>>

\* line 266: the balance query failed in the transport
GetBalanceRejects(c) ==
  /\ calls[c].pc = "getBalance"
  /\ calls' = [calls EXCEPT ![c] = NoCall]
  /\ out' = Rejected(calls[c], "transport error")
  /\ UNCHANGED <<NETWORKS, PROVIDERS, clients, callerVars>>

(* ------------------------- getSupportedNetworks ------------------------ *)

GetSupportedNetworks ==
  /\ out' = Outcome([NoCall EXCEPT !.kind = "networks", !.pc = "done"],
                    getSupportedNetworks(NETWORKS))
  /\ UNCHANGED <<NETWORKS, PROVIDERS, clients, calls, callerVars>>

(* ---------------------------- key material ----------------------------- *)

\* the outcome of an identity operation, as its caller sees it
Identity(op, input, outcome) ==
  << [op |-> op, input |-> input,
      error |-> outcome.error, value |-> outcome.value, valid |-> <<>>] >>

\* the outcome of a validity probe: the boolean it returned, if it returned
Probe(op, input, outcome) ==
  << [op |-> op, input |-> input,
      error |-> outcome.error, value |-> <<>>, valid |-> outcome.value] >>

\* the identities the caller holds
Held == { o[1].value[1] : o \in { h \in {wallet, earlier} :
                                    h # <<>> /\ h[1].value # <<>> } }

HeldKeys == { w.privateKey : w \in Held }

HeldPhrases == { w.mnemonic[1] : w \in { h \in Held : h.mnemonic # <<>> } }

\* each operation is synchronous; the caller may keep the previous outcome
CreateWallet(entropy) ==
  /\ wallet' = Identity("createWallet", <<>>, createWallet(entropy))
  /\ earlier' \in {earlier, wallet}
  /\ UNCHANGED <<NETWORKS, PROVIDERS, clients, calls, out, masked, app>>

RecoverWalletFromPrivateKey(privateKey) ==
  /\ wallet' = Identity("recoverWalletFromPrivateKey", privateKey,
                        recoverWalletFromPrivateKey(privateKey))
  /\ earlier' \in {earlier, wallet}
  /\ UNCHANGED <<NETWORKS, PROVIDERS, clients, calls, out, masked, app>>

RecoverWalletFromMnemonic(mnemonic) ==
  /\ wallet' = Identity("recoverWalletFromMnemonic", mnemonic,
                        recoverWalletFromMnemonic(mnemonic))
  /\ earlier' \in {earlier, wallet}
  /\ UNCHANGED <<NETWORKS, PROVIDERS, clients, calls, out, masked, app>>

IsValidPrivateKey(privateKey) ==
  /\ wallet' = Probe("isValidPrivateKey", privateKey,
                     isValidPrivateKey(privateKey))
  /\ earlier' \in {earlier, wallet}
  /\ UNCHANGED <<NETWORKS, PROVIDERS, clients, calls, out, masked, app>>

IsValidMnemonic(mnemonic) ==
  /\ wallet' = Probe("isValidMnemonic", mnemonic, isValidMnemonic(mnemonic))
  /\ earlier' \in {earlier, wallet}
  /\ UNCHANGED <<NETWORKS, PROVIDERS, clients, calls, out, masked, app>>

(* ------------------------- address presentation ------------------------ *)

\* line 316: a length that is not passed takes its default
MaskAddress(address, args) ==
  LET prefixLength == IF Len(args) >= 1 THEN args[1] ELSE DefaultPrefixLength
      suffixLength == IF Len(args) >= 2 THEN args[2] ELSE DefaultSuffixLength
  IN  /\ masked' = << [address |-> address, args |-> args,
                       prefixLength |-> prefixLength,
                       suffixLength |-> suffixLength,
                       result |-> maskAddress(address, prefixLength,
                                              suffixLength)] >>
      /\ UNCHANGED <<NETWORKS, PROVIDERS, clients, calls, out, wallet,
                     earlier, app>>

(* ------------------------------ web app -------------------------------- *)

\* a sequence without the element x
RECURSIVE Without(_, _)
Without(q, x) ==
  IF q = <<>> THEN <<>>
  ELSE IF Head(q) = x THEN Without(Tail(q), x)
  ELSE <<Head(q)>> \o Without(Tail(q), x)

\* the elements of q that come before x
RECURSIVE Before(_, _)
Before(q, x) ==
  IF q = <<>> \/ Head(q) = x THEN {} ELSE {Head(q)} \cup Before(Tail(q), x)

\* App.tsx lines 117-127: refreshBalance up to the await, run by the effect
\* of lines 136-138 with the wallet and network of `next`
RefreshBalance(next) ==
  IF next.wallet = <<>>
  THEN /\ app' = [next EXCEPT !.balance = <<>>, !.balanceError = <<>>]
       /\ UNCHANGED <<NETWORKS, PROVIDERS, clients, calls, out>>
  ELSE LET request == [NoRequest EXCEPT !.address = next.wallet[1],
                                        !.network = next.network]
       IN  \E p \in {balancePrepare(NETWORKS, PROVIDERS, clients, request)} :
             LET started ==
                   [NoCall EXCEPT !.kind = "balance", !.request = request,
                                  !.to = p.address,
                                  !.networkInfo = p.networkInfo,
                                  !.provider = p.provider]
             IN  /\ PROVIDERS' = p.providers
                 /\ clients' = p.clients
                 /\ UNCHANGED NETWORKS
                 /\ IF p.error # NoError
                    THEN /\ out' = Rejected(started, p.error)
                         /\ UNCHANGED calls
                         /\ app' = [next EXCEPT !.balanceError = <<p.error>>,
                                                !.isBalanceLoading = FALSE]
                    ELSE /\ FreeCalls # {}
                         /\ calls' = [calls EXCEPT ![NextCall] =
                              [started EXCEPT !.pc = "getBalance", !.rpc = 1]]
                         /\ out' = <<>>
                         /\ app' = [next EXCEPT
                              !.isBalanceLoading = TRUE,
                              !.balanceError = <<>>,
                              !.pending = Append(next.pending, NextCall)]

\* App.tsx lines 145-148: a created or recovered wallet is loaded
LoadWallet(address) ==
  /\ RefreshBalance([app EXCEPT !.wallet = << <<address>> >>])
  /\ UNCHANGED <<wallet, earlier, masked>>

\* App.tsx line 331: the user selects another network
SelectNetwork(network) ==
  /\ network # app.network
  /\ RefreshBalance([app EXCEPT !.network = network])
  /\ UNCHANGED <<wallet, earlier, masked>>

\* App.tsx line 340: the Refresh button, enabled with a wallet and not loading
ClickRefresh ==
  /\ app.wallet # <<>>
  /\ ~app.isBalanceLoading
  /\ RefreshBalance(app)
  /\ UNCHANGED <<wallet, earlier, masked>>

\* App.tsx lines 127-128, 132-134: fetchNativeBalance resolved
BalanceArrives(c, wei) ==
  LET call == [calls[c] EXCEPT !.wei = <<wei>>]
      latest == [network |-> call.request.network,
                 address |-> call.to,
                 wei |-> toString(wei),
                 formatted |-> formatEther(wei),
                 symbol |-> call.networkInfo.symbol]
  IN  /\ call.pc = "getBalance"
      /\ calls' = [calls EXCEPT ![c] = NoCall]
      /\ out' = Fulfilled(call, latest)
      /\ app' = [app EXCEPT !.balance = <<latest>>,
                            !.isBalanceLoading = FALSE,
                            !.pending = Without(app.pending, c),
                            !.older = Before(app.pending, c)]
      /\ UNCHANGED <<NETWORKS, PROVIDERS, clients, wallet, earlier, masked>>

\* App.tsx lines 129-134: fetchNativeBalance rejected
BalanceFails(c) ==
  /\ calls[c].pc = "getBalance"
  /\ calls' = [calls EXCEPT ![c] = NoCall]
  /\ out' = Rejected(calls[c], "transport error")
  /\ app' = [app EXCEPT !.balanceError = <<"transport error">>,
                        !.isBalanceLoading = FALSE,
                        !.pending = Without(app.pending, c),
                        !.older = app.older \ {c}]
  /\ UNCHANGED <<NETWORKS, PROVIDERS, clients, wallet, earlier, masked>>

(* --------------------------- specification ----------------------------- *)

Next ==
  \/ \E request \in FlowTransferRequests, callbackThrows \in BOOLEAN :
        SendNativeTransaction(request, callbackThrows)
  \/ \E c \in Calls, hash \in TxHashes, throwsAt \in 0..2 :
        SendTransactionResolves(c, hash, throwsAt)
  \/ \E c \in Calls : SendTransactionRejects(c)
  \/ \E c \in Calls, receipt \in Receipts : WaitResolves(c, receipt)
  \/ \E c \in Calls : WaitRejects(c)
  \/ \E request \in FlowBalanceRequests : FetchNativeBalance(request)
  \/ \E c \in Calls, wei \in Balances : GetBalanceResolves(c, wei)
  \/ \E c \in Calls : GetBalanceRejects(c)
  \/ GetSupportedNetworks

\* every call, from start to outcome, over the flow requests
Spec == Init /\ [][Next]_vars

NextInputs ==
  \/ \E request \in {r \in TransferRequests : r.onProgress},
        callbackThrows \in BOOLEAN :
        SendNativeTransaction(request, callbackThrows)
  \/ \E request \in BalanceRequests : FetchNativeBalance(request)

\* the network answers the submission of call c, one way or the other
SubmissionAnswered(c) ==
  \/ \E hash \in TxHashes, throwsAt \in 0..2 :
        SendTransactionResolves(c, hash, throwsAt)
  \/ SendTransactionRejects(c)

\* the network answers the wait of call c, one way or the other
WaitAnswered(c) ==
  \/ \E receipt \in Receipts : WaitResolves(c, receipt)
  \/ WaitRejects(c)

\* valid transfers on one network, with and without progress callback
LiveTransferRequests ==
  { r \in FlowTransferRequests :
      r.privateKey = <<ValidKeyWord>> /\ r.network = "sepolia" }

NextLive ==
  \/ \E request \in LiveTransferRequests, callbackThrows \in BOOLEAN :
        SendNativeTransaction(request, callbackThrows)
  \/ \E c \in Calls : SubmissionAnswered(c)
  \/ \E c \in Calls : WaitAnswered(c)

\* the transfers, under the assumption that the network eventually answers
\* each submission and each wait
SpecLive ==
  /\ Init /\ [][NextLive]_vars
  /\ \A c \in Calls : WF_vars(SubmissionAnswered(c)) /\ WF_vars(WaitAnswered(c))

\* the synchronous part of every call, over all requests
SpecInputs == Init /\ [][NextInputs]_vars

NextKeys ==
  \/ \E entropy \in Entropies : CreateWallet(entropy)
  \/ \E privateKey \in RecoveryKeys \cup HeldKeys :
        RecoverWalletFromPrivateKey(privateKey)
  \/ \E mnemonic \in RecoveryPhrases \cup HeldPhrases :
        RecoverWalletFromMnemonic(mnemonic)
  \/ \E request \in { r \in FlowBalanceRequests : r.network = "sepolia" } :
        FetchNativeBalance(request)
  \/ \E c \in Calls : GetBalanceRejects(c)

\* the identity operations in any order and any number of times, among
\* balance calls that fill the connection cache
SpecKeys == Init /\ [][NextKeys]_vars

NextProbes ==
  \/ \E privateKey \in RecoveryKeys :
        \/ RecoverWalletFromPrivateKey(privateKey)
        \/ IsValidPrivateKey(privateKey)
  \/ \E mnemonic \in RecoveryPhrases :
        \/ RecoverWalletFromMnemonic(mnemonic)
        \/ IsValidMnemonic(mnemonic)

\* the validity probes next to the recoveries they stand for
SpecProbes == Init /\ [][NextProbes]_vars

NextApp ==
  \/ \E address \in AppAddresses : LoadWallet(address)
  \/ \E network \in CatalogIds : SelectNetwork(network)
  \/ ClickRefresh
  \/ \E c \in Calls, wei \in Balances : BalanceArrives(c, wei)
  \/ \E c \in Calls : BalanceFails(c)

\* the balance panel of the web app
SpecApp == Init /\ [][NextApp]_vars

NextMask ==
  \E address \in MaskInputs, args \in MaskArgs : MaskAddress(address, args)

\* maskAddress over every input string and every choice of lengths
SpecMask == Init /\ [][NextMask]_vars

(* ====================== properties of the transfer ===================== *)

StageNames == <<"signing", "broadcasted", "confirming">>

IsPrefix(a, b) == Len(a) <= Len(b) /\ \A i \in 1..Len(a) : a[i] = b[i]

Stages(call) == [i \in 1..Len(call.events) |-> call.events[i].stage]

\* the invocations in sight: those awaiting the network and the one that
\* ended in the last step
Ended == {out[i].call : i \in 1..Len(out)}

Awaiting == {calls[c] : c \in {d \in Calls : calls[d].kind # "none"}}

Transfers == {call \in Awaiting \cup Ended : call.kind = "send"}

\* response.wait() was called
ReachedWait(call) == call.pc = "wait" \/ (call.pc = "done" /\ call.rpc = 2)

WellFormedRecipient(request) == isAddress(trim(request.to))

ParsedAmount(request) == parseEther(trim(request.amountEth))

CatalogKeys == {NETWORKS[i].key : i \in 1..Len(NETWORKS)}

CacheUntouched(o) == o.providersBefore = PROVIDERS /\ o.clientsBefore = clients

\* C1: with a progress callback, the stages delivered are always a prefix of
\* signing, broadcasted, confirming, and are exactly those three once the
\* call has reached the confirmation wait.
C1_ProgressOrder ==
  \A call \in Transfers :
    call.request.onProgress =>
      /\ IsPrefix(Stages(call), StageNames)
      /\ ReachedWait(call) => Stages(call) = StageNames

C1_Witness ==
  \E call \in Ended :
    /\ call.kind = "send" /\ call.request.onProgress
    /\ call.rpc = 2 /\ call.result # <<>>

\* C2: the hash of the one submitted transaction is the hash of the
\* broadcasted event, of the confirming event, of the result and of the
\* result's explorer URL; the signing event carries none.
C2_SameHash ==
  \A call \in Transfers :
    /\ \A i \in 1..Len(call.events) :
         IF call.events[i].stage = "signing"
         THEN call.events[i].hash = NoHash
         ELSE Len(call.submitted) = 1 /\ call.events[i].hash = call.submitted[1]
    /\ call.result # <<>> =>
         /\ Len(call.submitted) = 1
         /\ call.result[1].hash = call.submitted[1]
         /\ call.result[1].explorerUrl # <<>> =>
              call.result[1].explorerUrl[Len(call.result[1].explorerUrl)]
                = call.submitted[1]

C2_Witness ==
  \E call \in Ended :
    /\ call.kind = "send" /\ call.result # <<>>
    /\ Len(call.events) = 3
    /\ call.result[1].explorerUrl # <<>>
    /\ call.result[1].hash = "0xh2"

\* C3: a transfer with a well-formed recipient and an amount that parses to
\* zero or less is rejected with the non-positive-amount error, with no
\* progress event, no client constructed, no request sent and nothing
\* submitted; it never gets to await the network.
C3_NonPositiveAmount ==
  /\ \A call \in Transfers :
       (/\ WellFormedRecipient(call.request)
        /\ ParsedAmount(call.request).ok
        /\ IsNonPositive(ParsedAmount(call.request).value))
       => /\ call.pc = "done"
          /\ call.error = "Amount must be greater than zero."
          /\ call.events = <<>>
          /\ call.rpc = 0
          /\ call.submitted = <<>>
          /\ call.result = <<>>
  /\ \A i \in 1..Len(out) :
       (/\ out[i].call.kind = "send"
        /\ WellFormedRecipient(out[i].call.request)
        /\ ParsedAmount(out[i].call.request).ok
        /\ IsNonPositive(ParsedAmount(out[i].call.request).value))
       => CacheUntouched(out[i])

C3_Witness ==
  \E i \in 1..Len(out) :
    /\ out[i].call.kind = "send"
    /\ out[i].call.request.amountEth = <<"0">>
    /\ WellFormedRecipient(out[i].call.request)
    /\ out[i].call.request.privateKey = <<ValidKeyWord>>
    /\ out[i].call.request.network = "sepolia"
    /\ out[i].call.error # NoError

\* C4: a transfer with an empty or malformed recipient is rejected with the
\* invalid-recipient error whatever the amount, network and key are, with no
\* progress event; the cache is unchanged and nothing is submitted.
InvalidRecipientErrors ==
  {"Recipient address is required.", "Invalid recipient address."}

C4_InvalidRecipient ==
  /\ \A call \in Transfers :
       ~WellFormedRecipient(call.request)
       => /\ call.pc = "done"
          /\ call.error \in InvalidRecipientErrors
          /\ call.events = <<>>
          /\ call.rpc = 0
          /\ call.submitted = <<>>
          /\ call.result = <<>>
  /\ \A i \in 1..Len(out) :
       (out[i].call.kind = "send" /\ ~WellFormedRecipient(out[i].call.request))
       => CacheUntouched(out[i])

C4_Witness ==
  \E i \in 1..Len(out) :
    /\ out[i].call.kind = "send"
    /\ out[i].call.request.to = <<"not-an-address">>
    /\ out[i].call.request.amountEth = <<"1", ".", "5">>
    /\ out[i].call.request.privateKey = <<ValidKeyWord>>
    /\ out[i].call.request.network = "mainnet"
    /\ out[i].call.error # NoError
    /\ PROVIDERS["mainnet"] # 0

\* C5: a wait that resolves to no receipt or to a receipt whose status is not
\* success ends the transfer with the on-chain-failure error and no result;
\* that error is raised in no other case, hence only after the submission and
\* the three notifications.
NonSuccess(receipt) == receipt = <<>> \/ receipt[1].status # 1

C5_OnChainFailure ==
  \A call \in Transfers :
    /\ (call.receipt # <<>> /\ NonSuccess(call.receipt[1]))
         => /\ call.error = "Transaction failed on-chain."
            /\ call.result = <<>>
    /\ call.error = "Transaction failed on-chain."
         => /\ call.receipt # <<>> /\ NonSuccess(call.receipt[1])
            /\ call.rpc = 2
            /\ Len(call.submitted) = 1
            /\ call.request.onProgress => Stages(call) = StageNames

C5_Witness ==
  \E call \in Ended :
    /\ call.kind = "send" /\ call.request.onProgress
    /\ call.receipt = << <<[status |-> 0, blockNumber |-> 7]>> >>
    /\ call.error # NoError

\* C6: a transfer's stage only advances along idle, signing, broadcasted,
\* confirming and ends in exactly one of confirmed (a result) or failed (an
\* error); the notified stages never repeat or go back, and the step that
\* ends a call releases it, so nothing is notified afterwards.
StageRank(stage) ==
  CASE stage = "idle" -> 0
    [] stage = "signing" -> 1
    [] stage = "broadcasted" -> 2
    [] stage = "confirming" -> 3
    [] stage = "confirmed" -> 4
    [] stage = "failed" -> 4

StageOf(call) ==
  CASE call.pc = "idle" -> "idle"
    [] call.pc = "sendTransaction" -> "signing"
    [] call.pc = "wait" -> "confirming"
    [] call.pc = "done" ->
         IF call.result # <<>> /\ call.error = NoError THEN "confirmed" ELSE "failed"

Linear(call) ==
  /\ \A i, j \in 1..Len(call.events) :
       i < j => StageRank(call.events[i].stage) < StageRank(call.events[j].stage)
  /\ \A i \in 1..Len(call.events) :
       StageRank(call.events[i].stage) <= StageRank(StageOf(call))
  /\ call.pc = "done" => (call.result # <<>>) # (call.error # NoError)
  /\ call.pc # "done" => call.result = <<>> /\ call.error = NoError
  /\ StageOf(call) = "confirmed" => call.rpc = 2 /\ call.receipt # <<>>

Advances(before, after) ==
  /\ after.kind = before.kind
  /\ after.request = before.request
  /\ StageRank(StageOf(after)) > StageRank(StageOf(before))
  /\ IsPrefix(before.events, after.events)

C6_Step ==
  /\ \A call \in {x \in Awaiting \cup Ended : x.kind = "send"}' : Linear(call)
  /\ \A c \in Calls :
       calls[c].kind = "send" =>
         \/ calls'[c] = calls[c]
         \/ calls'[c].pc # "done" /\ Advances(calls[c], calls'[c])
         \/ /\ calls'[c] = NoCall
            /\ out' # <<>>
            /\ out'[1].call.pc = "done"
            /\ Advances(calls[c], out'[1].call)
  /\ \A c \in Calls : calls'[c].pc # "done"

C6_LinearStages == [][C6_Step]_vars

C6_Witness ==
  \E call \in Ended :
    /\ call.kind = "send" /\ call.request.onProgress
    /\ Len(call.events) = 3
    /\ call.error = "transport error"

(* ================== properties of the connection cache ================= *)

ClientsFor(network) == {i \in 1..Len(clients) : clients[i].key = network}

Descriptor(network) == CHOOSE d \in {NETWORKS[i] : i \in 1..Len(NETWORKS)} : d.key = network

CacheSound ==
  /\ \A n \in NetworkIds :
       /\ Cardinality(ClientsFor(n)) <= 1
       /\ PROVIDERS[n] # 0 =>
            /\ PROVIDERS[n] \in ClientsFor(n)
            /\ n \in CatalogKeys
            /\ clients[PROVIDERS[n]].rpcUrl = Descriptor(n).rpcUrl
            /\ clients[PROVIDERS[n]].chainId = Descriptor(n).chainId
  /\ \A i \in 1..Len(clients) : PROVIDERS[clients[i].key] = i
  /\ \A call \in Awaiting : call.provider = PROVIDERS[call.request.network]

\* C7: over any sequence of balance and transfer calls at most one client is
\* ever constructed per network id; the first acquisition stores a client
\* bound to the network's endpoint and chain id, every later one gets that
\* handle, and a stored handle is never replaced or removed.
C7_Step ==
  /\ CacheSound'
  /\ IsPrefix(clients, clients')
  /\ \A n \in NetworkIds : PROVIDERS[n] # 0 => PROVIDERS'[n] = PROVIDERS[n]
  /\ Len(clients') <= Len(clients) + 1

C7_OneClientPerNetwork == [][C7_Step]_vars

C7_Witness ==
  /\ Len(clients) = 2
  /\ out # <<>>
  /\ out[1].call.kind = "balance"
  /\ out[1].call.result # <<>>
  /\ \E c \in Calls :
       /\ calls[c].kind = "send"
       /\ calls[c].request.network = out[1].call.request.network
       /\ calls[c].provider = out[1].call.provider

\* C8: calls for the same network that await the network at the same time
\* hold the same client, and exactly one client exists for that network.
C8_NoDuplicateClient ==
  \A c, d \in Calls :
    (/\ c # d
     /\ calls[c].kind # "none" /\ calls[d].kind # "none"
     /\ calls[c].request.network = calls[d].request.network)
    => /\ calls[c].provider = calls[d].provider
       /\ calls[c].provider # 0
       /\ Cardinality(ClientsFor(calls[c].request.network)) = 1

C8_Witness ==
  /\ calls[1].pc = "getBalance"
  /\ calls[2].pc = "sendTransaction"
  /\ calls[1].request.network = "mainnet"
  /\ calls[2].request.network = "mainnet"
  /\ Len(clients) = 1

\* C9: a call that gets to resolve a network id that is not in the catalog is
\* rejected with the unsupported-network error; whatever it is rejected with,
\* no client is constructed, the cache is unchanged, no request is sent and
\* no progress event is delivered.
ResolvesNetwork(call) ==
  IF call.kind = "send"
  THEN /\ WellFormedRecipient(call.request)
       /\ ParsedAmount(call.request).ok
       /\ ~IsNonPositive(ParsedAmount(call.request).value)
  ELSE isAddress(trim(call.request.address))

C9_UnsupportedNetwork ==
  /\ \A call \in Awaiting : call.request.network \in CatalogKeys
  /\ \A i \in 1..Len(out) :
       (out[i].call.kind \in {"send", "balance"}
        /\ out[i].call.request.network \notin CatalogKeys)
       => /\ out[i].call.error # NoError
          /\ out[i].call.result = <<>>
          /\ ResolvesNetwork(out[i].call)
               => out[i].call.error = "Unsupported network"
          /\ out[i].call.events = <<>>
          /\ out[i].call.rpc = 0
          /\ out[i].call.provider = 0
          /\ CacheUntouched(out[i])
  /\ \A n \in NetworkIds \ CatalogKeys : PROVIDERS[n] = 0 /\ ClientsFor(n) = {}

C9_Witness ==
  \E i \in 1..Len(out) :
    /\ out[i].call.kind = "send"
    /\ out[i].call.request.network = "goerli"
    /\ out[i].call.request.onProgress
    /\ out[i].call.request.privateKey = <<ValidKeyWord>>
    /\ out[i].call.error = "Unsupported network"
    /\ PROVIDERS["sepolia"] # 0

(* ===================== properties of the registry ====================== *)

\* C10: the catalog never changes, and getSupportedNetworks returns it in its
\* fixed order: sepolia first, mainnet second.
C10_Step ==
  /\ NETWORKS' = NETWORKS
  /\ Len(NETWORKS') = 2
  /\ NETWORKS'[1].key = "sepolia" /\ NETWORKS'[1].chainId = 11155111
  /\ NETWORKS'[2].key = "mainnet" /\ NETWORKS'[2].chainId = 1
  /\ \A i \in 1..Len(out') :
       out'[i].call.kind = "networks" =>
         /\ out'[i].listed = NETWORKS
         /\ [k \in 1..Len(out'[i].listed) |-> out'[i].listed[k].key]
              = <<"sepolia", "mainnet">>

C10_CatalogFixed == [][C10_Step]_vars

C10_Witness ==
  /\ out # <<>>
  /\ out[1].call.kind = "networks"
  /\ Len(out[1].listed) = 2
  /\ Len(clients) = 2
  /\ \E c \in Calls : calls[c].pc = "wait"

(* ======================= more on the transfer ========================== *)

\* C11: one invocation calls sendTransaction once and wait at most once and
\* has at most one transaction accepted; a rejected submission ends the call
\* with that error, with `signing` as the only notification, and a call that
\* failed is released in that step, so no step of it is attempted again.
C11_NoRetry ==
  \A call \in Transfers :
    /\ Len(call.submitted) <= 1
    /\ call.rpc <= 2
    /\ call.pc = "sendTransaction" => call.rpc = 1 /\ call.submitted = <<>>
    /\ call.pc = "wait" => call.rpc = 2 /\ Len(call.submitted) = 1
    /\ (call.pc = "done" /\ call.error # NoError /\ call.submitted = <<>>)
         => /\ call.rpc <= 1
            /\ call.result = <<>>
            /\ Stages(call) = (IF call.request.onProgress /\ call.rpc = 1
                               THEN <<"signing">> ELSE Stages(call))
            /\ \A i \in 1..Len(call.events) : call.events[i].stage = "signing"
    /\ (call.error = "transport error" /\ call.rpc = 1)
         => /\ call.pc = "done"
            /\ call.submitted = <<>>
            /\ call.request.onProgress => Stages(call) = <<"signing">>

C11_Witness ==
  \E call \in Ended :
    /\ call.kind = "send" /\ call.request.onProgress
    /\ call.error = "transport error"
    /\ call.rpc = 1
    /\ call.events = signingProgress

(* ============================ balances ================================= *)

BalanceCalls == { call \in Calls : call.kind = "balance" }

WellFormedAddress(request) == isAddress(trim(request.address))

\* C12: a balance request whose address is not well-formed is rejected with
\* "Invalid wallet address." whatever its network identifier: the step that
\* rejects it leaves the client cache as it was, the call holds no client and
\* has issued no query, and no such request is ever waiting for an answer.
C12_InvalidAddress ==
  /\ \A c \in DOMAIN calls :
       calls[c].kind = "balance" => WellFormedAddress(calls[c].request)
  /\ \A i \in DOMAIN out :
       LET call == out[i].call
       IN  (call.kind = "balance" /\ ~WellFormedAddress(call.request))
             => /\ call.error = "Invalid wallet address."
                /\ call.result = <<>>
                /\ call.rpc = 0
                /\ call.provider = 0
                /\ call.networkInfo = NoNetwork
                /\ CacheUntouched(out[i])

C12_Witness ==
  \E call \in Ended :
    /\ call.kind = "balance"
    /\ call.request.address = <<"not-an-address">>
    /\ call.request.network \notin CatalogKeys
    /\ call.error = "Invalid wallet address."
    /\ clients = <<>>

FulfilledBalances(o) ==
  { o[i].call : i \in { j \in DOMAIN o : /\ o[j].call.kind = "balance"
                                         /\ o[j].call.result # <<>> } }

\* C13: every balance returned is the one the network answered to the query
\* that this call issued itself; when two calls for the same address and
\* network are answered one after the other with different balances, the
\* first returns the old and the second the new one; no pending call and no
\* cache entry holds a balance, only client handles are kept.
C13_Step ==
  /\ \A c \in DOMAIN calls' : calls'[c].wei = <<>>
  /\ \A n \in DOMAIN PROVIDERS' : PROVIDERS'[n] \in 0..Len(clients')
  /\ \A new \in FulfilledBalances(out') :
       /\ new.rpc = 1
       /\ new.wei # <<>>
       /\ new.result[1].wei = toString(new.wei[1])
       /\ new.result[1].formatted = formatEther(new.wei[1])
       /\ \A old \in FulfilledBalances(out) :
            (old.request = new.request /\ old.wei # new.wei)
              => /\ new.result[1].wei # old.result[1].wei
                 /\ old.result[1].wei = toString(old.wei[1])

C13_NeverCached == [][C13_Step]_vars

C13_Witness ==
  /\ \E call \in FulfilledBalances(out) :
       call.wei # <<BigZero>> /\ call.result[1].wei # <<"0">>
  /\ \E c \in DOMAIN calls :
       /\ calls[c].pc = "getBalance"
       /\ \A call \in FulfilledBalances(out) : calls[c].request = call.request

\* C14: in a successful balance result the raw amount is the integer the
\* network reported written in decimal, digit for digit, without sign or
\* leading zero, and "0" for a zero balance; the network identifier is the
\* requested one and the symbol is the one the catalog lists for it.
C14_BalanceFields ==
  \A call \in FulfilledBalances(out) :
    LET result == call.result[1]
        reported == call.wei[1]
    IN  /\ ~reported.neg
        /\ reported.mag = <<>> => result.wei = <<"0">>
        /\ reported.mag # <<>> =>
             /\ result.wei = reported.mag
             /\ result.wei[1] # "0"
        /\ \A i \in DOMAIN result.wei : result.wei[i] \in Digits
        /\ result.network = call.request.network
        /\ result.network \in CatalogKeys
        /\ result.symbol = Descriptor(call.request.network).symbol
        /\ result.address = trim(call.request.address)

C14_Witness ==
  /\ \E call \in FulfilledBalances(out) :
       call.wei = <<BigZero>> /\ call.result[1].wei = <<"0">>
                              /\ call.result[1].network = "mainnet"
  /\ \A c \in DOMAIN calls : calls[c].kind = "none"

(* ==================== properties of the key material =================== *)

\* the outcome a caller's variable holds, if any
Outcomes(held) == { held[i] : i \in DOMAIN held }

\* the last outcome and an earlier one, in both orders
OutcomePairs ==
  (Outcomes(earlier) \X Outcomes(wallet))
    \cup (Outcomes(wallet) \X Outcomes(earlier))

ByKey(o) == o.op = "recoverWalletFromPrivateKey"

ByPhrase(o) == o.op = "recoverWalletFromMnemonic"

WithPhrase(o) == o.op = "createWallet" \/ ByPhrase(o)

\* a key written without its "0x" prefix
withoutPrefix(k) == IF k # <<>> /\ Head(k) = "0x" THEN Tail(k) ELSE k

\* C15: when recovery accepts a key k written without surrounding blanks,
\* it also accepts "0x" followed by k without its prefix and yields the same
\* address, and it yields the same result for k with blanks around it.
C15_PrefixAndWhitespace ==
  \A p \in OutcomePairs :
    LET a == p[1]
        b == p[2]
    IN  (/\ ByKey(a) /\ ByKey(b)
         /\ a.error = NoError
         /\ a.input # <<>> /\ trim(a.input) = a.input)
          => /\ b.input = <<"0x">> \o withoutPrefix(a.input)
                => /\ b.error = NoError
                   /\ b.value[1].address = a.value[1].address
             /\ (trim(b.input) = a.input)
                => /\ b.error = NoError
                   /\ b.value = a.value

C15_Witness ==
  /\ earlier # <<>> /\ wallet # <<>>
  /\ ByKey(earlier[1]) /\ earlier[1].input = <<"k2">>
  /\ ByKey(wallet[1]) /\ wallet[1].input = <<"0x", "k2">>
  /\ earlier[1].error = NoError /\ wallet[1].error = NoError
  /\ wallet[1].value[1].address = <<OtherChecksumAddress>>
  /\ earlier[1].value[1].address = <<OtherChecksumAddress>>

C17_MnemonicPresence ==
  /\ \A o \in Outcomes(wallet) \cup Outcomes(earlier) :
       o.value # <<>> =>
         /\ (o.value[1].mnemonic # <<>>) <=> WithPhrase(o)
         /\ o.value[1].mnemonic # <<>> => o.value[1].mnemonic[1] # <<>>
  /\ \A p \in OutcomePairs :
       (/\ WithPhrase(p[1]) /\ p[1].value # <<>>
        /\ ByKey(p[2]) /\ p[2].input = p[1].value[1].privateKey)
         => /\ p[2].value # <<>>
            /\ p[2].value[1].mnemonic = <<>>
            /\ p[1].value[1].mnemonic # <<>>

C17_Witness ==
  /\ earlier # <<>> /\ wallet # <<>>
  /\ earlier[1].op = "createWallet"
  /\ earlier[1].value[1].mnemonic = <<entropyToPhrase("e2")>>
  /\ ByKey(wallet[1])
  /\ wallet[1].input = earlier[1].value[1].privateKey
  /\ wallet[1].value # <<>>
  /\ wallet[1].value[1].mnemonic = <<>>

\* C18: recovering from the private key of an identity that createWallet or
\* recoverWalletFromMnemonic returned succeeds and returns that identity's
\* address and private key.
C18_KeyRoundTrip ==
  \A p \in OutcomePairs :
    (/\ WithPhrase(p[1]) /\ p[1].value # <<>>
     /\ ByKey(p[2]) /\ p[2].input = p[1].value[1].privateKey)
      => /\ p[2].error = NoError
         /\ p[2].value[1].address = p[1].value[1].address
         /\ p[2].value[1].privateKey = p[1].value[1].privateKey

C18_Witness ==
  /\ earlier # <<>> /\ wallet # <<>>
  /\ ByPhrase(earlier[1])
  /\ earlier[1].input = <<" ", "w1", " ", " ", "w2", " ">>
  /\ earlier[1].value # <<>>
  /\ ByKey(wallet[1])
  /\ wallet[1].input = earlier[1].value[1].privateKey
  /\ wallet[1].value # <<>>
  /\ wallet[1].value[1].address = earlier[1].value[1].address
  /\ wallet[1].value[1].address = <<ChecksumAddress>>

(* ================= properties of the address presentation ============== *)

Dots == <<".", ".", ".">>

\* the first n and the last n characters of a string (n at most its length)
FirstChars(s, n) == SubSeq(s, 1, n)

LastChars(s, n) == SubSeq(s, Len(s) - n + 1, Len(s))

\* C19 as stated: with the default lengths an input of at most 10
\* characters is returned unchanged, and a longer input gives 13 characters
\* whose first 6 and last 4 are those of the input.
C19_AsStated ==
  \A i \in DOMAIN masked :
    LET m == masked[i]
    IN  m.args = <<>> =>
          IF Len(m.address) <= DefaultPrefixLength + DefaultSuffixLength
          THEN m.result = m.address
          ELSE /\ Len(m.result) = DefaultPrefixLength + 3 + DefaultSuffixLength
               /\ FirstChars(m.result, DefaultPrefixLength)
                    = FirstChars(m.address, DefaultPrefixLength)
               /\ LastChars(m.result, DefaultSuffixLength)
                    = LastChars(m.address, DefaultSuffixLength)

\* C19: with the default lengths, maskAddress first drops the blanks around
\* its input; when what remains has at most 10 characters it is returned as
\* it is (so an input without surrounding blanks comes back unchanged), and
\* when it is longer the result has exactly 13 characters, whose first 6 and
\* last 4 are those of the input without its surrounding blanks.
C19_DefaultMask ==
  \A i \in DOMAIN masked :
    LET m == masked[i]
        normalized == trim(m.address)
    IN  m.args = <<>> =>
          /\ m.prefixLength = DefaultPrefixLength
          /\ m.suffixLength = DefaultSuffixLength
          /\ IF Len(normalized) <= DefaultPrefixLength + DefaultSuffixLength
             THEN /\ m.result = normalized
                  /\ normalized = m.address => m.result = m.address
             ELSE /\ Len(m.result)
                       = DefaultPrefixLength + 3 + DefaultSuffixLength
                  /\ FirstChars(m.result, DefaultPrefixLength)
                       = FirstChars(normalized, DefaultPrefixLength)
                  /\ LastChars(m.result, DefaultSuffixLength)
                       = LastChars(normalized, DefaultSuffixLength)
                  /\ SubSeq(m.result, DefaultPrefixLength + 1,
                            DefaultPrefixLength + 3) = Dots

C19_Witness ==
  \E i \in DOMAIN masked :
    /\ masked[i].args = <<>>
    /\ masked[i].address = <<" ">> \o SubSeq(AddressChars, 1, 11)
    /\ masked[i].result =
         <<"0", "x", "1", "2", "3", "4", ".", ".", ".", "6", "7", "8", "9">>

\* the characters of an address that lie between its first prefixLength
\* and its last suffixLength characters
Middle(m) ==
  { m.address[k] : k \in (m.prefixLength + 1)..(Len(m.address) - m.suffixLength) }

\* C20 as stated, for addresses written without blanks around them:
\* whenever the address is longer than prefixLength + suffixLength, both
\* non-negative and possibly zero, the result is the first prefixLength
\* characters, "...", and the last suffixLength characters: it has length
\* prefixLength + 3 + suffixLength and shows no character of the middle.
C20_AsStated ==
  \A i \in DOMAIN masked :
    LET m == masked[i]
    IN  (/\ trim(m.address) = m.address
         /\ Len(m.address) > m.prefixLength + m.suffixLength)
          => /\ m.result = FirstChars(m.address, m.prefixLength) \o Dots
                             \o LastChars(m.address, m.suffixLength)
             /\ Len(m.result) = m.prefixLength + 3 + m.suffixLength
             /\ \A k \in DOMAIN m.result : m.result[k] \notin Middle(m)

\* the failing call: no blanks, suffixLength 0, and the whole address shown
C20_FailingInput ==
  \E i \in DOMAIN masked :
    /\ masked[i].address = SubSeq(AddressChars, 1, 12)
    /\ masked[i].args = <<2, 0>>
    /\ masked[i].result = <<"0", "x">> \o Dots \o SubSeq(AddressChars, 1, 12)

(* ==================== properties of the validity probes ================ *)

\* C21: a probe always returns a boolean and never throws; for the same
\* input isValidPrivateKey returns true exactly when
\* recoverWalletFromPrivateKey succeeds and isValidMnemonic returns true
\* exactly when recoverWalletFromMnemonic succeeds; isValidMnemonic returns
\* false for the empty string, for blanks only and for a phrase that fails
\* the word-list or checksum validation.
C21_ProbesAgree ==
  /\ \A o \in Outcomes(wallet) \cup Outcomes(earlier) :
       o.op \in {"isValidPrivateKey", "isValidMnemonic"} =>
         /\ o.error = NoError
         /\ o.valid \in {<<TRUE>>, <<FALSE>>}
         /\ (/\ o.op = "isValidMnemonic"
             /\ o.input \in {<<>>, <<" ">>, <<"w1">>, <<"w1", " ", "w1">>})
              => o.valid = <<FALSE>>
  /\ \A p \in OutcomePairs :
       (/\ p[1].input = p[2].input
        /\ \/ p[1].op = "isValidPrivateKey" /\ ByKey(p[2])
           \/ p[1].op = "isValidMnemonic" /\ ByPhrase(p[2]))
         => p[1].valid = << p[2].error = NoError /\ p[2].value # <<>> >>

C21_Witness ==
  /\ earlier # <<>> /\ wallet # <<>>
  /\ ByPhrase(earlier[1])
  /\ earlier[1].input = <<" ", "w1", " ", " ", "w2", " ">>
  /\ earlier[1].value # <<>>
  /\ wallet[1].op = "isValidMnemonic"
  /\ wallet[1].input = earlier[1].input
  /\ wallet[1].valid = <<TRUE>>

(* ======================= the result of a transfer ====================== *)

FulfilledTransfers ==
  { out[i].call : i \in { j \in DOMAIN out : /\ out[j].call.kind = "send"
                                             /\ out[j].call.result # <<>> } }

\* the explorer template the catalog lists for a network, <<>> if it has none
Template(network) ==
  LET base == Descriptor(network).explorerTxBaseUrl
  IN  IF base = Null \/ base = "" THEN <<>> ELSE <<base>>

\* C22: in every transfer result the explorer link is the template of the
\* network named in the request, then "/", then the hash of the result, when
\* that network has a template, and it is null exactly when it has none.
C22_ExplorerUrl ==
  \A call \in FulfilledTransfers :
    LET result == call.result[1]
        template == Template(call.request.network)
    IN  /\ (result.explorerUrl = <<>>) <=> (template = <<>>)
        /\ template # <<>> =>
             result.explorerUrl = <<template[1], "/", result.hash>>
        /\ result.hash = call.hash
        /\ result.hash \in TxHashes

C22_Witness ==
  \E call \in FulfilledTransfers :
    /\ call.request.network = "mainnet"
    /\ call.result[1].hash = "0xh2"
    /\ call.result[1].explorerUrl = <<"https://etherscan.io/tx", "/", "0xh2">>

(* ===================== termination of a transfer ======================= *)

\* every pending transfer is eventually released, from either await
EventuallyEnds ==
  \A c \in Calls :
    /\ (calls[c].pc = "sendTransaction") ~> (calls[c].pc # "sendTransaction")
    /\ (calls[c].pc = "wait") ~> (calls[c].pc # "wait")

\* a transfer that ended after `confirming` was notified ended with a
\* result or with one of the given errors
EndsWith(errors) ==
  \A call \in Ended :
    (call.kind = "send" /\ \E i \in DOMAIN call.events :
                             call.events[i].stage = "confirming")
      => (call.result # <<>>) # (call.error \in errors)

\* no result and no on-chain failure without an answer to the wait, and a
\* call leaves the wait only in the step in which the network answers it
NotBeforeAnswer ==
  /\ \A call \in Ended :
       (call.kind = "send" /\ (\/ call.result # <<>>
                               \/ call.error = "Transaction failed on-chain."))
         => call.rpc = 2 /\ call.receipt # <<>>
  /\ \A c \in Calls :
       (calls[c].pc = "wait" /\ calls'[c] # calls[c])
         => /\ out' # <<>>
            /\ out'[1].call.request = calls[c].request
            /\ out'[1].call.hash = calls[c].hash
            /\ \/ out'[1].call.receipt # <<>>
               \/ out'[1].call.error = "transport error"

\* C23 as stated: every transfer ends once the network has answered, and
\* after `confirming` it ends with a result, the on-chain failure or a
\* transport error, and not before the network answered the wait.
C23_AsStated ==
  /\ EventuallyEnds
  /\ [] EndsWith({"Transaction failed on-chain.", "transport error"})
  /\ [][NotBeforeAnswer]_vars

\* C23: every transfer ends once the network has answered; after
\* `confirming` was notified it ends with a result, with the on-chain
\* failure, with a transport error, or with the error the progress callback
\* threw on that notification; a result or an on-chain failure never comes
\* before the network has answered the wait.
C23_Terminates ==
  /\ EventuallyEnds
  /\ [] EndsWith({"Transaction failed on-chain.", "transport error",
                  "callback error"})
  /\ [][NotBeforeAnswer]_vars

C23_Witness ==
  \E call \in Ended :
    /\ call.kind = "send"
    /\ Len(call.events) = 3
    /\ call.events[3].stage = "confirming"
    /\ call.error = "callback error"
    /\ call.rpc = 1

(* ======================= order of the checks =========================== *)

\* a sender key the signer accepts: a key word, with or without "0x", with
\* or without blanks around it
UsableKey(request) ==
  trim(request.privateKey) \in
    { <<w>> : w \in KeyWords } \cup { <<"0x", w>> : w \in KeyWords }

UsableAmount(request) ==
  ParsedAmount(request).ok /\ ~IsNonPositive(ParsedAmount(request).value)

\* the errors of each check, in the order of the checks
CheckErrors ==
  << InvalidRecipientErrors,
     {"Amount is required.", "Invalid amount format.",
      "Amount must be greater than zero."},
     {"Unsupported network"},
     {"Private key is required.", "invalid private key"} >>

\* the first check a request fails, 0 if it fails none
FirstDefect(request) ==
  IF ~WellFormedRecipient(request) THEN 1
  ELSE IF ~UsableAmount(request) THEN 2
  ELSE IF request.network \notin CatalogKeys THEN 3
  ELSE IF ~UsableKey(request) THEN 4
  ELSE 0

\* C24: a transfer is rejected with the error of the first check it fails,
\* in the order recipient, amount, network, sender key, and a request that
\* fails none is not rejected by a check; a request whose only defect is its
\* sender key has no progress event, no request sent and nothing submitted,
\* while the cache holds a client for its network after the rejecting step.
C24_CheckOrder ==
  /\ \A call \in Awaiting :
       call.kind = "send" => FirstDefect(call.request) = 0
  /\ \A i \in DOMAIN out :
       LET call == out[i].call
           defect == FirstDefect(call.request)
       IN  call.kind = "send" =>
             /\ defect # 0 => call.error \in CheckErrors[defect]
             /\ defect = 0 =>
                  \A k \in DOMAIN CheckErrors : call.error \notin CheckErrors[k]
             /\ defect = 4
                  => /\ call.events = <<>>
                     /\ call.rpc = 0
                     /\ call.submitted = <<>>
                     /\ call.result = <<>>
                     /\ PROVIDERS[call.request.network] # 0
                     /\ clients[PROVIDERS[call.request.network]].key
                          = call.request.network
                     /\ out[i].providersBefore[call.request.network] = 0
                          => Len(clients) = Len(out[i].clientsBefore) + 1

C24_Witness ==
  \E i \in DOMAIN out :
    /\ out[i].call.kind = "send"
    /\ out[i].call.request.privateKey = <<"0x", "zz">>
    /\ out[i].call.request.network = "mainnet"
    /\ out[i].call.error = "invalid private key"
    /\ out[i].call.events = <<>>
    /\ out[i].providersBefore["mainnet"] = 0
    /\ PROVIDERS["mainnet"] # 0

(* ====================== properties of the web app ====================== *)

Outstanding == { c \in Calls : calls[c].kind = "balance" }

\* the displayed balance is that of the loaded wallet on the selected network
BalanceIsCurrent ==
  \A i \in DOMAIN app.balance :
    /\ app.wallet = <<app.balance[i].address>>
    /\ app.network = app.balance[i].network

\* the answer to a request older than the one displayed changes no balance
NoStaleOverwrite ==
  \A c \in app.older : calls'[c] # calls[c] => app'.balance = app.balance

\* C25 as stated: when no balance request is outstanding the balance on
\* display is that of the loaded wallet on the selected network; the answer
\* to an earlier request never replaces the balance of a later one; the
\* loading flag is false only when no request is outstanding.
C25_AsStated ==
  /\ [] (Outstanding = {} => BalanceIsCurrent)
  /\ [] (~app.isBalanceLoading => Outstanding = {})
  /\ [][NoStaleOverwrite]_vars

\* the failing state: nothing outstanding, nothing failed, not loading, and
\* the balance on display is the one of the network selected before
C25_FailingState ==
  /\ Outstanding = {}
  /\ app.balanceError = <<>>
  /\ ~app.isBalanceLoading
  /\ app.network = "mainnet"
  /\ app.balance # <<>>
  /\ app.balance[1].network = "sepolia"
  /\ app.wallet = <<app.balance[1].address>>

====
